---- MODULE Spec2Model ----
(***************************************************************************)
(* Retrieval core of the prompt library: the per-user FAISS vector store,  *)
(* the embedding generator with its batch/retry loop, and the context      *)
(* retriever.  Text is held as runs of characters;        an embedding   *)
(* is a sequence of integers; None is the empty sequence.                  *)
(***************************************************************************)
EXTENDS Integers, Sequences, FiniteSets, TLC

\* ------------------------------------------------------------------ bounds
MaxVectors == 2        \* vectors an index may hold before adds stop
MaxFaults == 2         \* storage faults injected in one behaviour
MaxChunks == 3         \* longest chunk list handed to generate_embeddings
BatchSize == 2         \* EmbeddingConfig.batch_size of the generator under test
MaxFmtChunks == 2      \* longest chunk list handed to _format_context
MaxParagraphs == 3     \* paragraphs of a text handed to chunk_text
TopK == 3              \* RetrievalConfig.top_k of the retriever under test

\* ------------------------------------------------------ program constants
EmbeddingDimension == 2   \* dimension the store is constructed with
PreviewLen == 200         \* content[:200] in add_chunks
MaxRetries == 3           \* EmbeddingConfig.max_retries
RetryDelay == 10          \* EmbeddingConfig.retry_delay, in tenths of a second
MaxTokens == 8191         \* SUPPORTED_MODELS[model]["max_tokens"]
MinRemainingSpace == 100  \* if remaining_space > 100 in _format_context
DefaultMaxContextLength == 4000   \* RetrievalConfig.max_context_length
SimilarityThreshold == 70 \* RetrievalConfig.similarity_threshold, in hundredths
ChunkSize == 1000         \* ChunkingConfig.chunk_size, in tokens
ChunkOverlap == 200       \* ChunkingConfig.chunk_overlap, in tokens
MinChunkSize == 100       \* ChunkingConfig.min_chunk_size, in characters

\* ------------------------------------------------------------ text helpers
\* A str is held as its runs: a sequence of [c, n] (character c repeated
\* n >= 1 times) in which neighbouring runs have different characters, so
\* two texts are equal exactly when their run sequences are equal.
None == <<>>
Min(a, b) == IF a < b THEN a ELSE b
Max(a, b) == IF a > b THEN a ELSE b

Run(c, n) == IF n <= 0 THEN <<>> ELSE <<[c |-> c, n |-> n]>>

\* len(s)
RECURSIVE StrLen(_)
StrLen(s) == IF Len(s) = 0 THEN 0 ELSE s[1].n + StrLen(Tail(s))

\* s + t
Cat(s, t) ==
    IF Len(s) = 0 THEN t
    ELSE IF Len(t) = 0 THEN s
    ELSE IF s[Len(s)].c = t[1].c
         THEN SubSeq(s, 1, Len(s) - 1) \o Run(t[1].c, s[Len(s)].n + t[1].n) \o Tail(t)
         ELSE s \o t

\* python s[:k] for k >= 0
RECURSIVE Take(_, _)
Take(s, k) ==
    IF k <= 0 \/ Len(s) = 0 THEN <<>>
    ELSE IF s[1].n <= k THEN <<s[1]>> \o Take(Tail(s), k - s[1].n)
    ELSE Run(s[1].c, k)

\* python s[k:] for k >= 0
RECURSIVE Drop(_, _)
Drop(s, k) ==
    IF k <= 0 \/ Len(s) = 0 THEN s
    ELSE IF s[1].n <= k THEN Drop(Tail(s), k - s[1].n)
    ELSE Run(s[1].c, s[1].n - k) \o Tail(s)

\* python s[a:b] for 0 <= a <= b
SubStr(s, a, b) == Take(Drop(s, a), b - a)

\* the text of the characters of a tuple, e.g. Str(<<"a", "b">>) is "ab"
RECURSIVE Str(_)
Str(cs) == IF Len(cs) = 0 THEN <<>> ELSE Cat(Run(cs[1], 1), Str(Tail(cs)))

\* a text of n characters: "b" repeated, closed by one "c"
Text(n) == Cat(Run("b", n - 1), Run("c", Min(n, 1)))

Ellipsis == Run(".", 3)

Whitespace == {" ", "\n", "\t"}

\* s.lstrip(), s.rstrip(), s.strip()
RECURSIVE LStrip(_)
LStrip(s) == IF Len(s) > 0 /\ s[1].c \in Whitespace THEN LStrip(Tail(s)) ELSE s
RECURSIVE RStrip(_)
RStrip(s) == IF Len(s) > 0 /\ s[Len(s)].c \in Whitespace
             THEN RStrip(SubSeq(s, 1, Len(s) - 1)) ELSE s
Strip(s) == RStrip(LStrip(s))

IsPrefix(p, s) == Take(s, StrLen(p)) = p

\* ------------------------------------------------------------ vector maths
RECURSIVE DotUpTo(_, _, _)
DotUpTo(u, v, i) == IF i = 0 THEN 0 ELSE DotUpTo(u, v, i - 1) + u[i] * v[i]
Dot(u, v) == DotUpTo(u, v, Min(Len(u), Len(v)))

\* integer norm of the vectors used here (all have a whole-number length)
Norm(v) == LET d == Dot(v, v) IN CHOOSE n \in 0..20 : n * n = d

UnitScale == 10   \* a unit vector is held as integers scaled by UnitScale

\* faiss.normalize_L2: scale to unit length, a zero vector is left as it is
NormalizeL2(v) == LET nv == Norm(v)
                  IN  IF nv = 0 THEN v
                      ELSE [i \in 1..Len(v) |-> (v[i] * UnitScale) \div nv]

\* --------------------------------------------------------------- the inputs
DocIds == {"d1", "d2"}

\* f"{document_id}_chunk_{i}"
ChunkId(doc, i) == <<doc, "_chunk_", i>>

\* the chunks the callers hand to the store: two with an embedding of the
\* index's dimension (content one longer than, and exactly of, the preview
\* length), one whose embedding is None, one whose embedding has a wrong
\* dimension
ChunkMeta(i) == [page_number |-> i, section_title |-> None]

MakeChunk(doc, i, n, emb) ==
    [id |-> ChunkId(doc, i), document_id |-> doc, content |-> Text(n),
     embedding |-> emb, metadata |-> ChunkMeta(i)]

ChunkA == MakeChunk("d1", 0, PreviewLen + 1, <<3, 4>>)
ChunkB == MakeChunk("d2", 0, PreviewLen, <<20, 0>>)
ChunkN == MakeChunk("d1", 1, 5, None)
ChunkX == MakeChunk("d2", 1, 4, <<1, 2, 2>>)
ChunkC == MakeChunk("d2", 2, 5, <<6, 8>>)
ChunkPool == {ChunkA, ChunkB, ChunkN, ChunkX, ChunkC}

\* the chunk lists handed to add_chunks
ChunkLists == {<<ChunkA>>, <<ChunkB>>, <<ChunkA, ChunkB>>, <<ChunkB, ChunkN, ChunkA>>,
               <<ChunkN>>, <<ChunkA, ChunkX>>}

\* the content of the chunk of the pool with this id
PoolChunk(id) == CHOOSE c \in ChunkPool : c.id = id
PoolContent(id) == PoolChunk(id).content

SaveFaults == {"none", "index_upload", "metadata_upload"}
LoadFaults == {"none", "index_read", "metadata_read"}

\* ----------------------------------------------------------- store state
VARIABLES
    index,        \* self.index: [loaded, vectors]; loaded = FALSE is None
    metadata,     \* self.metadata: [filled, dimension, total_vectors, document_chunks]
    blobIndex,    \* the persisted index blob: [exists, vectors]
    blobMeta,     \* the persisted metadata document: [exists, doc]
    lastCall,     \* the last call on the store, its arguments and its result
    assignLog,    \* vector ids handed out since the index object was made
    faults,       \* storage faults injected so far
    writers,      \* two store instances of one owner that add concurrently
    gen,          \* one generate_embeddings call of the EmbeddingGenerator
    fmt,          \* one _format_context call of the ContextRetriever
    rag,          \* one retrieve_context call of the ContextRetriever
    srch,         \* one search call on a FAISSVectorStore
    ing,          \* one document ingestion (_process_document_async)
    chk,          \* one chunk_text call of the TextChunker
    tok,          \* one truncate_to_token_limit call of a TokenCounter
    run           \* one run of the process_document trigger, step by step

vars == <<index, metadata, blobIndex, blobMeta, lastCall, assignLog, faults, writers,
          gen, fmt, rag, srch, ing, chk, tok, run>>
blobVars == <<blobIndex, blobMeta>>
storeVars == <<index, metadata, lastCall, assignLog, faults>>

NoIndex == [loaded |-> FALSE, vectors |-> <<>>]
EmptyDict == [filled |-> FALSE, dimension |-> 0, total_vectors |-> 0, document_chunks |-> <<>>]

ntotal(ix) == Len(ix.vectors)

\* metadata['document_chunks'] is a dict in insertion order: a sequence of
\* [document_id, chunks] pairs with distinct document ids
HasDoc(dc, d) == \E p \in 1..Len(dc) : dc[p].document_id = d
DocPos(dc, d) == CHOOSE p \in 1..Len(dc) : dc[p].document_id = d
DocEntries(dc, d) == IF HasDoc(dc, d) THEN dc[DocPos(dc, d)].chunks ELSE <<>>
AppendEntry(dc, d, e) ==
    IF HasDoc(dc, d)
    THEN [dc EXCEPT ![DocPos(dc, d)].chunks = Append(@, e)]
    ELSE Append(dc, [document_id |-> d, chunks |-> <<e>>])
\* (a removal that empties the whole map)
DelEveryDoc(dc, d) == SelectSeq(dc, LAMBDA x : FALSE)
\* del self.metadata['document_chunks'][document_id]
DelDoc(dc, d) == SelectSeq(dc, LAMBDA x : x.document_id # d)

\* every entry of the map, with the document it is filed under and its place
AllEntries(dc) ==
    UNION {{[document_id |-> dc[p].document_id, entry |-> dc[p].chunks[q], pos |-> <<p, q>>] :
                q \in 1..Len(dc[p].chunks)} : p \in 1..Len(dc)}

\* FAISSVectorStore._create_new_index
CreateNewIndex ==
    [index |-> [loaded |-> TRUE, vectors |-> <<>>],
     metadata |-> [filled |-> TRUE, dimension |-> EmbeddingDimension,
                   total_vectors |-> 0, document_chunks |-> <<>>]]

\* FAISSVectorStore._load_index: TRUE iff both artifacts exist and are read
LoadSucceeds(bi, bm, loadFault) == bi.exists /\ bm.exists /\ loadFault = "none"

\* did reading an existing artifact fail (as opposed to one being missing)
LoadReadFailed(bi, bm, loadFault) == bi.exists /\ bm.exists /\ loadFault # "none"

LoadIndex(bi, bm) ==
    [index |-> [loaded |-> TRUE, vectors |-> bi.vectors], metadata |-> bm.doc]

\* (an initialize_index that keeps the index it read when the metadata read fails)
InitializeIndexKeepsReadIndex(bi, bm, loadFault) ==
    IF LoadSucceeds(bi, bm, loadFault)
    THEN [store |-> LoadIndex(bi, bm), ret |-> TRUE, created |-> FALSE]
    ELSE IF bi.exists /\ bm.exists /\ loadFault = "metadata_read"
    THEN [store |-> [index |-> [loaded |-> TRUE, vectors |-> bi.vectors],
                     metadata |-> CreateNewIndex.metadata],
          ret |-> TRUE, created |-> TRUE]
    ELSE [store |-> CreateNewIndex, ret |-> TRUE, created |-> TRUE]

\* FAISSVectorStore.initialize_index: the store after the call and its result
InitializeIndexResult(bi, bm, loadFault) ==
    IF LoadSucceeds(bi, bm, loadFault)
    THEN [store |-> LoadIndex(bi, bm), ret |-> TRUE, created |-> FALSE]
    ELSE [store |-> CreateNewIndex, ret |-> TRUE, created |-> TRUE]

\* the preview add_chunks stores for a chunk's content
ContentPreview(content) ==
    IF StrLen(content) > PreviewLen THEN Cat(Take(content, PreviewLen), Ellipsis) ELSE content

\* the first vector id of a batch: start_id = self.index.ntotal
StartId(ix, md) == ntotal(ix)

\* the metadata loop of add_chunks over the chunks that carry an embedding
RECURSIVE UpdateMetadata(_, _, _, _)
UpdateMetadata(dc, cm, startId, i) ==
    IF i >= Len(cm) THEN dc
    ELSE UpdateMetadata(
            AppendEntry(dc, cm[i + 1].document_id,
                        [vector_id |-> startId + i,
                         chunk_id |-> cm[i + 1].id,
                         content_preview |-> ContentPreview(cm[i + 1].content),
                         metadata |-> cm[i + 1].metadata]),
            cm, startId, i + 1)

\* FAISSVectorStore._save_index: the two uploads, index blob first
SaveIndex(ix, md, bi, bm, saveFault) ==
    IF saveFault = "index_upload" THEN [blobIndex |-> bi, blobMeta |-> bm, raised |-> TRUE]
    ELSE IF saveFault = "metadata_upload"
    THEN [blobIndex |-> [exists |-> TRUE, vectors |-> ix.vectors], blobMeta |-> bm,
          raised |-> TRUE]
    ELSE [blobIndex |-> [exists |-> TRUE, vectors |-> ix.vectors],
          blobMeta |-> [exists |-> TRUE, doc |-> md], raised |-> FALSE]

\* add_chunks up to the save: the chunks that carry an embedding are
\* collected, their vectors normalised and appended, the metadata updated
AddInMemory(ix, md, chunks) ==
    LET cm == SelectSeq(chunks, LAMBDA c : c.embedding # None)
    IN  IF Len(cm) = 0 \/ \E i \in 1..Len(cm) : Len(cm[i].embedding) # EmbeddingDimension
        THEN [ok |-> FALSE, index |-> ix, metadata |-> md, startId |-> -1, inserted |-> <<>>]
        ELSE
          LET startId == StartId(ix, md)
              newIx == [ix EXCEPT
                          !.vectors = @ \o [i \in 1..Len(cm) |-> NormalizeL2(cm[i].embedding)]]
              newMd == [md EXCEPT
                          !.document_chunks = UpdateMetadata(@, cm, startId, 0),
                          !.total_vectors = ntotal(newIx)]
          IN  [ok |-> TRUE, index |-> newIx, metadata |-> newMd, startId |-> startId,
               inserted |-> cm]

\* FAISSVectorStore.add_chunks on a store (ix, md) with storage (bi, bm)
AddChunksResult(ix, md, bi, bm, chunks, loadFault, saveFault) ==
    LET init == IF ~ix.loaded THEN InitializeIndexResult(bi, bm, loadFault).store
                ELSE [index |-> ix, metadata |-> md]
        mem == AddInMemory(init.index, init.metadata, chunks)
        saved == SaveIndex(mem.index, mem.metadata, bi, bm, saveFault)
    IN  IF ~mem.ok
        THEN [index |-> init.index, metadata |-> init.metadata,
              blobIndex |-> bi, blobMeta |-> bm, ret |-> FALSE,
              startId |-> -1, inserted |-> <<>>, reinit |-> ~ix.loaded]
        ELSE [index |-> mem.index, metadata |-> mem.metadata,
              blobIndex |-> saved.blobIndex, blobMeta |-> saved.blobMeta,
              ret |-> ~saved.raised, startId |-> mem.startId, inserted |-> mem.inserted,
              reinit |-> ~ix.loaded]

\* FAISSVectorStore.remove_document
RemoveDocumentResult(ix, md, bi, bm, d, saveFault) ==
    IF ~ix.loaded \/ ~HasDoc(md.document_chunks, d)
    THEN [index |-> ix, metadata |-> md, blobIndex |-> bi, blobMeta |-> bm,
          ret |-> TRUE, removed |-> FALSE]
    ELSE LET newMd == [md EXCEPT !.document_chunks = DelDoc(@, d)]
             saved == SaveIndex(ix, newMd, bi, bm, saveFault)
         IN  [index |-> ix, metadata |-> newMd,
              blobIndex |-> saved.blobIndex, blobMeta |-> saved.blobMeta,
              ret |-> ~saved.raised, removed |-> TRUE]

\* ----------------------------------------------------------- store actions
NoCall == [op |-> "none", ret |-> TRUE, startId |-> -1, inserted |-> <<>>,
           doc |-> "", readFailed |-> FALSE, removed |-> FALSE]

Writers == {1, 2}
NewWriter == [pc |-> "new", index |-> NoIndex, metadata |-> EmptyDict, ret |-> FALSE]
RaceIdle == writers = [w \in Writers |-> NewWriter]

GenIdle ==
    gen = [pc |-> "off", chunks |-> <<>>, poison |-> {}, valid |-> <<>>, out |-> <<>>,
           pos |-> 0, attempt |-> 0, trace |-> <<>>, returned |-> <<>>, stray |-> FALSE]

FmtIdle ==
    fmt = [pc |-> "off", chunks |-> <<>>, max_context_length |-> 0,
           include_metadata |-> FALSE, context |-> <<>>, used |-> 0]

\* ContextRetriever._empty_context_response
EmptyContextResponse ==
    [context |-> <<>>, chunks |-> <<>>,
     metadata |-> [query |-> <<>>, total_chunks_found |-> 0, chunks_used |-> 0,
                   context_length |-> 0, similarity_scores |-> <<>>,
                   document_sources |-> {}]]

\* no retrieve_context call has been made
NoRetrieval ==
    [pc |-> "off", max_context_length |-> 0,
     query |-> <<>>, document_ids |-> {}, embedded |-> FALSE,
     init_called |-> FALSE, init_ret |-> FALSE, read_failed |-> FALSE,
     found |-> 0, lookups |-> {}, lookup_failed |-> FALSE, used |-> 0,
     missing |-> {}, failing |-> {}, candidates |-> <<>>, enriched |-> <<>>,
     response |-> EmptyContextResponse]

RagIdle == rag = NoRetrieval

\* no search call has been made
NoSearch == [pc |-> "off", query_embedding |-> <<>>, k |-> 0, score_threshold |-> 0,
             results |-> <<>>]
SearchIdle == srch = NoSearch

\* no document is being ingested
NoIngestion ==
    [pc |-> "off", chunks |-> <<>>, embedded |-> <<>>, records |-> <<>>,
     status |-> "", has_user |-> FALSE, add_called |-> FALSE, add_ret |-> FALSE,
     store |-> [index |-> NoIndex, metadata |-> EmptyDict]]
IngestIdle == ing = NoIngestion

\* no text is being chunked
NoChunking ==
    [pc |-> "off", text |-> <<>>, cleaned_text |-> <<>>,
     structure_info |-> [pages |-> {}, headings |-> {}], splits |-> <<>>, chunks |-> <<>>]
ChunkIdle == chk = NoChunking

\* no TokenCounter is in use
NoTokens == [pc |-> "off", model |-> "", text |-> <<>>, max_tokens |-> 0, result |-> <<>>]
TokIdle == tok = NoTokens

\* the process_document trigger has not fired
NoRun ==
    [pc |-> "off", status |-> "uploaded", log |-> <<>>, write_faults |-> 0,
     file_path |-> FALSE, extraction |-> "ok", n_chunks |-> 0, provider_failed |-> {},
     storage |-> "ok", raised |-> "none", embedded |-> 0]
RunIdle == run = NoRun

StoreIdle ==
    /\ index = NoIndex
    /\ metadata = EmptyDict
    /\ lastCall = NoCall
    /\ assignLog = <<>>
    /\ faults = 0

Init ==
    /\ RaceIdle
    /\ GenIdle
    /\ FmtIdle
    /\ RagIdle
    /\ SearchIdle
    /\ IngestIdle
    /\ RunIdle
    /\ ChunkIdle
    /\ TokIdle
    /\ index = NoIndex
    /\ metadata = EmptyDict
    /\ blobIndex = [exists |-> FALSE, vectors |-> <<>>]
    /\ blobMeta = [exists |-> FALSE, doc |-> EmptyDict]
    /\ lastCall = NoCall
    /\ assignLog = <<>>
    /\ faults = 0

\* a storage fault is injected only while the budget lasts
Charge(loadFault, saveFault) ==
    LET k == (IF loadFault = "none" THEN 0 ELSE 1) + (IF saveFault = "none" THEN 0 ELSE 1)
    IN  faults + k <= MaxFaults /\ faults' = faults + k

\* FAISSVectorStore(user_id): a new instance for the same owner
Construct ==
    /\ index.loaded
    /\ index' = NoIndex
    /\ metadata' = EmptyDict
    /\ lastCall' = [NoCall EXCEPT !.op = "construct"]
    /\ assignLog' = <<>>
    /\ UNCHANGED <<blobIndex, blobMeta, faults, writers, gen, fmt, rag, srch, ing, chk, tok, run>>

InitializeIndex ==
    \E loadFault \in LoadFaults :
        LET r == InitializeIndexResult(blobIndex, blobMeta, loadFault)
        IN  /\ Charge(loadFault, "none")
            /\ (~(blobIndex.exists /\ blobMeta.exists) => loadFault = "none")
            /\ index' = r.store.index
            /\ metadata' = r.store.metadata
            /\ lastCall' = [NoCall EXCEPT !.op = "initialize_index", !.ret = r.ret,
                                          !.readFailed = LoadReadFailed(blobIndex, blobMeta, loadFault)]
            /\ assignLog' = <<>>
            /\ UNCHANGED <<blobIndex, blobMeta, writers, gen, fmt, rag, srch, ing, chk, tok, run>>

AddChunks ==
    \E chunks \in ChunkLists, loadFault \in LoadFaults, saveFault \in SaveFaults :
        LET r == AddChunksResult(index, metadata, blobIndex, blobMeta,
                                 chunks, loadFault, saveFault)
        IN  /\ Charge(loadFault, saveFault)
            /\ (index.loaded \/ ~(blobIndex.exists /\ blobMeta.exists) => loadFault = "none")
            /\ ntotal(r.index) <= MaxVectors
            /\ (r.startId = -1 => saveFault = "none")
            /\ index' = r.index
            /\ metadata' = r.metadata
            /\ blobIndex' = r.blobIndex
            /\ blobMeta' = r.blobMeta
            /\ lastCall' = [NoCall EXCEPT !.op = "add_chunks", !.ret = r.ret,
                                          !.startId = r.startId,
                                          !.inserted = [i \in 1..Len(r.inserted) |-> r.inserted[i].id],
                                          !.readFailed = ~index.loaded /\
                                              LoadReadFailed(blobIndex, blobMeta, loadFault)]
            /\ assignLog' = (IF r.reinit THEN <<>> ELSE assignLog)
                              \o [i \in 1..Len(r.inserted) |-> r.startId + i - 1]
            /\ UNCHANGED <<writers, gen, fmt, rag, srch, ing, chk, tok, run>>

RemoveDocument ==
    \E d \in DocIds, saveFault \in SaveFaults :
        LET r == RemoveDocumentResult(index, metadata, blobIndex, blobMeta, d, saveFault)
        IN  /\ Charge("none", saveFault)
            /\ (~r.removed => saveFault = "none")
            /\ index' = r.index
            /\ metadata' = r.metadata
            /\ blobIndex' = r.blobIndex
            /\ blobMeta' = r.blobMeta
            /\ lastCall' = [NoCall EXCEPT !.op = "remove_document", !.ret = r.ret,
                                          !.doc = d, !.removed = r.removed]
            /\ UNCHANGED <<assignLog, writers, gen, fmt, rag, srch, ing, chk, tok, run>>

Next == Construct \/ InitializeIndex \/ AddChunks \/ RemoveDocument

Spec == Init /\ [][Next]_vars

\* ------------------------------------------- two concurrent add_chunks calls
\* Each writer is a FAISSVectorStore of the same owner running add_chunks:
\* _load_index reads the index blob and then the metadata document,
\* the chunks are added in memory, _save_index uploads the index blob and
\* then the metadata document.  Every storage access is one step.

\* what is persisted when the two writers start: nothing, or one chunk
RaceStartStores ==
    {[blobIndex |-> [exists |-> FALSE, vectors |-> <<>>],
      blobMeta |-> [exists |-> FALSE, doc |-> EmptyDict]]} \cup
    {LET r == AddChunksResult(NoIndex, EmptyDict, [exists |-> FALSE, vectors |-> <<>>],
                              [exists |-> FALSE, doc |-> EmptyDict], <<ChunkB>>, "none", "none")
     IN  [blobIndex |-> r.blobIndex, blobMeta |-> r.blobMeta]}

RaceInit ==
    /\ StoreIdle
    /\ GenIdle
    /\ FmtIdle
    /\ RagIdle
    /\ SearchIdle
    /\ IngestIdle
    /\ RunIdle
    /\ ChunkIdle
    /\ TokIdle
    /\ RaceIdle
    /\ \E st \in RaceStartStores : blobIndex = st.blobIndex /\ blobMeta = st.blobMeta

\* _load_index, lines 66-78: both exists() checks and the index download
RaceLoadIndex(w) ==
    /\ writers[w].pc = "new"
    /\ IF blobIndex.exists /\ blobMeta.exists
       THEN writers' = [writers EXCEPT ![w].pc = "index_read",
                                       ![w].index = [loaded |-> TRUE, vectors |-> blobIndex.vectors]]
       ELSE writers' = [writers EXCEPT ![w].pc = "loaded",
                                       ![w].index = CreateNewIndex.index,
                                       ![w].metadata = CreateNewIndex.metadata]
    /\ UNCHANGED <<storeVars, blobIndex, blobMeta, gen, fmt, rag, srch, ing, chk, tok, run>>

\* _load_index, lines 81-82: the metadata download
RaceLoadMetadata(w) ==
    /\ writers[w].pc = "index_read"
    /\ writers' = [writers EXCEPT ![w].pc = "loaded", ![w].metadata = blobMeta.doc]
    /\ UNCHANGED <<storeVars, blobIndex, blobMeta, gen, fmt, rag, srch, ing, chk, tok, run>>

\* add_chunks, lines 119-163, and the index upload of _save_index
RaceAddAndUploadIndex(w) ==
    /\ writers[w].pc = "loaded"
    /\ \E chunks \in ChunkLists :
         LET mem == AddInMemory(writers[w].index, writers[w].metadata, chunks)
         IN  IF mem.ok
             THEN /\ writers' = [writers EXCEPT ![w].pc = "index_uploaded",
                                                ![w].index = mem.index,
                                                ![w].metadata = mem.metadata]
                  /\ blobIndex' = [exists |-> TRUE, vectors |-> mem.index.vectors]
             ELSE /\ writers' = [writers EXCEPT ![w].pc = "done", ![w].ret = FALSE]
                  /\ UNCHANGED blobIndex
    /\ UNCHANGED <<storeVars, blobMeta, gen, fmt, rag, srch, ing, chk, tok, run>>

\* the metadata upload of _save_index; add_chunks returns True
RaceUploadMetadata(w) ==
    /\ writers[w].pc = "index_uploaded"
    /\ blobMeta' = [exists |-> TRUE, doc |-> writers[w].metadata]
    /\ writers' = [writers EXCEPT ![w].pc = "done", ![w].ret = TRUE]
    /\ UNCHANGED <<storeVars, blobIndex, gen, fmt, rag, srch, ing, chk, tok, run>>

RaceNext ==
    \E w \in Writers :
        \/ RaceLoadIndex(w)
        \/ RaceLoadMetadata(w)
        \/ RaceAddAndUploadIndex(w)
        \/ RaceUploadMetadata(w)

SpecRace == RaceInit /\ [][RaceNext]_vars

\* ------------------------------------------------------ embedding generator
\* the tokenizer: one token per character
TokenCount(text) == StrLen(text)

\* (a truncation that cuts nothing)
TruncateKeepsAll(text, n) == text

\* decode(encode(text)[:n])
TruncateToTokens(text, n) == Take(text, n)

\* the vector the provider returns for a text
ProviderEmbedding(text) == <<StrLen(text), 0>>

\* what the provider can answer to one embeddings.create request
ProviderAnswers == {"ok", "rate_limit", "server_error", "authentication", "other"}

\* the exception classes of the except clauses, in the order they are tried
IsRateLimitError(a) == a = "rate_limit"
IsAPIError(a) == a \in {"rate_limit", "server_error", "authentication"}

\* the provider's fatal class: authentication or bad request
FatalAnswers == {"authentication"}

RECURSIVE Pow2(_)
Pow2(n) == IF n <= 0 THEN 1 ELSE 2 * Pow2(n - 1)

\* (a back-off that grows linearly)
WaitTimeLinear(attempt) == RetryDelay * (attempt + 1)

\* wait_time = self.config.retry_delay * (2 ** attempt)
WaitTime(attempt) == RetryDelay * Pow2(attempt)

\* the chunks handed to generate_embeddings: by kind of content
EmbedContents == {Text(5), <<>>, Run(" ", 2), Text(MaxTokens + 1), Cat(Run(" ", 1), Text(4))}

EmbedChunk(i, content) ==
    [id |-> ChunkId("d1", i), document_id |-> "d1", content |-> content,
     metadata |-> [truncated |-> FALSE, original_token_count |-> 0],
     embedding |-> None, embedding_error |-> ""]

\* EmbeddingGenerator._validate_chunks
RECURSIVE ValidateChunks(_)
ValidateChunks(chunks) ==
    IF Len(chunks) = 0 THEN <<>>
    ELSE LET chunk == chunks[1]
             content == Strip(chunk.content)
             token_count == TokenCount(content)
         IN  IF Len(chunk.content) = 0 \/ Len(content) = 0
             THEN ValidateChunks(Tail(chunks))
             ELSE IF token_count > MaxTokens
                  THEN <<[chunk EXCEPT
                            !.content = TruncateToTokens(content, MaxTokens),
                            !.metadata = [truncated |-> TRUE,
                                          original_token_count |-> token_count]]>>
                       \o ValidateChunks(Tail(chunks))
                  ELSE <<chunk>> \o ValidateChunks(Tail(chunks))

\* batch = valid_chunks[i:i + batch_size]
BatchAt(valid, pos) == SubSeq(valid, pos + 1, Min(pos + BatchSize, Len(valid)))

\* EmbeddingGenerator._process_batch, lines 110-119
ProcessBatch(batch, embeddings) ==
    [k \in 1..Len(batch) |->
        IF k <= Len(embeddings) /\ embeddings[k] # None
        THEN [batch[k] EXCEPT !.embedding = embeddings[k]]
        ELSE [batch[k] EXCEPT !.embedding = None,
                              !.embedding_error = "Failed to generate embedding"]]

GenInit ==
    /\ StoreIdle
    /\ RaceIdle
    /\ FmtIdle
    /\ RagIdle
    /\ SearchIdle
    /\ IngestIdle
    /\ RunIdle
    /\ ChunkIdle
    /\ TokIdle
    /\ blobIndex = [exists |-> FALSE, vectors |-> <<>>]
    /\ blobMeta = [exists |-> FALSE, doc |-> EmptyDict]
    /\ \E n \in 0..MaxChunks : \E contents \in [1..n -> EmbedContents] :
         \E poison \in {{}} \cup {{ChunkId("d1", i)} : i \in 0..(n - 1)} :
            gen = [pc |-> "start",
                   chunks |-> [i \in 1..n |-> EmbedChunk(i - 1, contents[i])],
                   poison |-> poison, valid |-> <<>>, out |-> <<>>,
                   pos |-> 0, attempt |-> 0, trace |-> <<>>, returned |-> <<>>,
                   stray |-> FALSE]

\* generate_embeddings, lines 59-71: validation
GenValidate ==
    /\ gen.pc = "start"
    /\ LET valid == ValidateChunks(gen.chunks)
       IN  gen' = [gen EXCEPT !.valid = valid,
                              !.pc = IF Len(valid) = 0 THEN "done" ELSE "call"]
    /\ UNCHANGED <<storeVars, blobVars, writers, fmt, rag, srch, ing, chk, tok, run>>

\* the batch is finished with the list _generate_embeddings_with_retry returns
FinishBatch(trace, embeddings, stray) ==
    LET batch == BatchAt(gen.valid, gen.pos)
        more == gen.pos + BatchSize < Len(gen.valid)
    IN  gen' = [gen EXCEPT !.out = @ \o ProcessBatch(batch, embeddings),
                           !.trace = trace,
                           !.returned = embeddings,
                           !.stray = stray,
                           !.attempt = 0,
                           !.pos = IF more THEN @ + BatchSize ELSE @,
                           !.pc = IF more THEN "call" ELSE "done"]

\* one pass of the loop of _generate_embeddings_with_retry: the request and
\* the provider's answer to it
GenProviderAnswer ==
    /\ gen.pc = "call"
    /\ \E answer \in ProviderAnswers :
         LET batch == BatchAt(gen.valid, gen.pos)
             poisoned == \E k \in 1..Len(batch) : batch[k].id \in gen.poison
             before == IF gen.attempt = 0 THEN <<>> ELSE gen.trace
             called == Append(before, [kind |-> "call", attempt |-> gen.attempt,
                                       answer |-> answer, t |-> 0])
             slept == Append(called, [kind |-> "sleep", attempt |-> gen.attempt,
                                      answer |-> "", t |-> WaitTime(gen.attempt)])
             nones == [k \in 1..Len(batch) |-> None]
             stray == gen.stray \/ (answer # "ok" /\ ~poisoned)
         IN  /\ (poisoned => answer # "ok")
             /\ IF answer = "ok"
                THEN FinishBatch(called,
                                 [k \in 1..Len(batch) |-> ProviderEmbedding(batch[k].content)],
                                 stray)
                ELSE IF IsRateLimitError(answer)
                THEN IF gen.attempt + 1 < MaxRetries
                     THEN gen' = [gen EXCEPT !.trace = slept, !.attempt = @ + 1,
                                             !.stray = stray]
                     ELSE FinishBatch(slept, nones, stray)
                ELSE IF IsAPIError(answer)
                THEN IF gen.attempt = MaxRetries - 1
                     THEN FinishBatch(called, nones, stray)
                     ELSE gen' = [gen EXCEPT !.trace = slept, !.attempt = @ + 1,
                                             !.stray = stray]
                ELSE FinishBatch(called, nones, stray)
    /\ UNCHANGED <<storeVars, blobVars, writers, fmt, rag, srch, ing, chk, tok, run>>

GenNext == GenValidate \/ GenProviderAnswer

SpecEmbed == GenInit /\ [][GenNext]_vars

\* --------------------------------------------------------- context formatting
Digit(d) == <<"0", "1", "2", "3", "4", "5", "6", "7", "8", "9">>[d + 1]

\* str(n) for n >= 0
RECURSIVE IntToStr(_)
IntToStr(n) == IF n < 10 THEN Run(Digit(n), 1)
               ELSE Cat(IntToStr(n \div 10), Run(Digit(n % 10), 1))

\* sep.join(parts)
RECURSIVE Join(_, _)
Join(parts, sep) ==
    IF Len(parts) = 0 THEN <<>>
    ELSE IF Len(parts) = 1 THEN parts[1]
    ELSE Cat(Cat(parts[1], sep), Join(Tail(parts), sep))

Newline == Run("\n", 1)

\* the source header of a chunk: page number and section title when present
SourceStr(md) ==
    LET page == IF md.page_number # 0
                THEN <<Cat(Str(<<"P", "a", "g", "e", " ">>), IntToStr(md.page_number))>>
                ELSE <<>>
        section == IF Len(md.section_title) # 0
                   THEN <<Cat(Str(<<"S", "e", "c", "t", "i", "o", "n", ":", " ">>),
                              md.section_title)>>
                   ELSE <<>>
        source_info == page \o section
    IN  IF Len(source_info) = 0 THEN <<>>
        ELSE Cat(Cat(Str(<<" ", "(">>), Join(source_info, Str(<<",", " ">>))), Run(")", 1))

\* context_part of the chunk with index i (from 0)
ContextPart(i, content, md, include_metadata) ==
    IF include_metadata
    THEN Cat(Cat(Cat(Cat(Cat(Str(<<"[", "S", "o", "u", "r", "c", "e", " ">>), IntToStr(i + 1)),
                         SourceStr(md)),
                     Str(<<"]", "\n">>)),
                 content),
             Newline)
    ELSE Cat(content, Run("\n", 2))

\* the loop of _format_context from chunk i (from 0) on: the parts appended
RECURSIVE FormatParts(_, _, _, _, _, _)
FormatParts(chunks, i, parts, current_length, L, include_metadata) ==
    IF i >= Len(chunks) THEN parts
    ELSE LET chunk == chunks[i + 1]
             over == current_length + StrLen(chunk.content) > L
             remaining_space == L - current_length
         IN  IF over /\ ~(remaining_space > MinRemainingSpace) THEN parts
             ELSE LET content == IF over
                                 THEN Cat(Take(chunk.content, remaining_space - 3), Ellipsis)
                                 ELSE chunk.content
                      part == ContextPart(i, content, chunk.full_metadata, include_metadata)
                  IN  FormatParts(chunks, i + 1, Append(parts, part),
                                  current_length + StrLen(part), L, include_metadata)

\* ContextRetriever._format_context
FormatContext(chunks, L, include_metadata) ==
    IF Len(chunks) = 0 THEN <<>>
    ELSE Strip(Join(FormatParts(chunks, 0, <<>>, 0, L, include_metadata), Newline))

\* the inputs of the formatter
FmtLimits == {150, DefaultMaxContextLength}
FmtContents == {Text(10), Text(40), Text(140), Text(150),
                Text(DefaultMaxContextLength - 10), Text(DefaultMaxContextLength),
                Text(DefaultMaxContextLength + 1000)}
FmtMetadata == {[page_number |-> 0, section_title |-> <<>>],
                [page_number |-> 12, section_title |-> <<>>],
                [page_number |-> 2, section_title |-> Text(4)]}
FmtChunks == {[content |-> c, full_metadata |-> md] : c \in FmtContents, md \in FmtMetadata}

FmtInit ==
    /\ StoreIdle
    /\ RaceIdle
    /\ GenIdle
    /\ RagIdle
    /\ SearchIdle
    /\ IngestIdle
    /\ RunIdle
    /\ ChunkIdle
    /\ TokIdle
    /\ blobIndex = [exists |-> FALSE, vectors |-> <<>>]
    /\ blobMeta = [exists |-> FALSE, doc |-> EmptyDict]
    /\ \E n \in 0..MaxFmtChunks : \E chunks \in [1..n -> FmtChunks] :
         \E L \in FmtLimits, inc \in BOOLEAN :
            fmt = [pc |-> "call", chunks |-> chunks, max_context_length |-> L,
                   include_metadata |-> inc, context |-> <<>>, used |-> 0]

FormatCall ==
    /\ fmt.pc = "call"
    /\ fmt' = [fmt EXCEPT
                 !.pc = "done",
                 !.context = FormatContext(fmt.chunks, fmt.max_context_length,
                                           fmt.include_metadata),
                 !.used = Len(FormatParts(fmt.chunks, 0, <<>>, 0, fmt.max_context_length,
                                          fmt.include_metadata))]
    /\ UNCHANGED <<storeVars, blobVars, writers, gen, rag, srch, ing, chk, tok, run>>

FmtNext == FormatCall

SpecFormat == FmtInit /\ [][FmtNext]_vars

\* ------------------------------------------------------------ vector search
\* FAISSVectorStore._get_chunk_by_vector_id: the first entry with this id,
\* scanning the documents in dict order
RECURSIVE ScanChunks(_, _, _)
ScanChunks(document_id, chunks, vector_id) ==
    IF Len(chunks) = 0 THEN <<>>
    ELSE IF chunks[1].vector_id = vector_id
         THEN <<[chunk_id |-> chunks[1].chunk_id, document_id |-> document_id,
                 content_preview |-> chunks[1].content_preview,
                 metadata |-> chunks[1].metadata]>>
         ELSE ScanChunks(document_id, Tail(chunks), vector_id)

RECURSIVE GetChunkByVectorId(_, _)
GetChunkByVectorId(dc, vector_id) ==
    IF Len(dc) = 0 THEN <<>>
    ELSE LET hit == ScanChunks(dc[1].document_id, dc[1].chunks, vector_id)
         IN  IF Len(hit) > 0 THEN hit ELSE GetChunkByVectorId(Tail(dc), vector_id)

\* inner product of the normalised query with a stored vector, in hundredths
Score(q, v) == Dot(NormalizeL2(q), v)

\* index.search(query, k): the k best vector ids by score, best first,
\* the lower id first among equal scores
RECURSIVE TopIds(_, _, _, _)
TopIds(ix, q, k, taken) ==
    LET rest == {v \in 0..(ntotal(ix) - 1) : \A j \in 1..Len(taken) : taken[j] # v}
    IN  IF k = 0 \/ rest = {} THEN taken
        ELSE LET best == CHOOSE v \in rest : \A w \in rest :
                            \/ Score(q, ix.vectors[v + 1]) > Score(q, ix.vectors[w + 1])
                            \/ /\ Score(q, ix.vectors[v + 1]) = Score(q, ix.vectors[w + 1])
                               /\ v <= w
             IN  TopIds(ix, q, k - 1, Append(taken, best))

RECURSIVE SearchResults(_, _, _, _, _)
SearchResults(ix, md, q, ids, score_threshold) ==
    IF Len(ids) = 0 THEN <<>>
    ELSE LET score == Score(q, ix.vectors[ids[1] + 1])
             info == GetChunkByVectorId(md.document_chunks, ids[1])
             rest == SearchResults(ix, md, q, Tail(ids), score_threshold)
         IN  IF score < score_threshold \/ Len(info) = 0 THEN rest
             ELSE <<[chunk_id |-> info[1].chunk_id, document_id |-> info[1].document_id,
                     content_preview |-> info[1].content_preview,
                     metadata |-> info[1].metadata,
                     similarity_score |-> score, vector_id |-> ids[1]]>> \o rest

\* (a search that does not apply the score threshold)
SearchIgnoresThreshold(ix, md, query_embedding, k, score_threshold) ==
    IF ~ix.loaded \/ ntotal(ix) = 0 THEN <<>>
    ELSE IF Len(query_embedding) # EmbeddingDimension THEN <<>>
    ELSE SearchResults(ix, md, query_embedding,
                       TopIds(ix, query_embedding, Min(k, ntotal(ix)), <<>>),
                       -(UnitScale * UnitScale))

\* FAISSVectorStore.search
Search(ix, md, query_embedding, k, score_threshold) ==
    IF ~ix.loaded \/ ntotal(ix) = 0 THEN <<>>
    ELSE IF Len(query_embedding) # EmbeddingDimension THEN <<>>
    ELSE SearchResults(ix, md, query_embedding,
                       TopIds(ix, query_embedding, Min(k, ntotal(ix)), <<>>),
                       score_threshold)

\* ---------------------------------------------------------- context retriever
LowerChar(c) == IF c = "B" THEN "b" ELSE IF c = "Z" THEN "z" ELSE c

\* s.lower()
RECURSIVE Lower(_)
Lower(s) == IF Len(s) = 0 THEN <<>>
            ELSE Cat(Run(LowerChar(s[1].c), s[1].n), Lower(Tail(s)))

\* set(s.split())
RECURSIVE WordsFrom(_, _)
WordsFrom(s, word) ==
    IF Len(s) = 0 THEN (IF Len(word) = 0 THEN {} ELSE {word})
    ELSE IF s[1].c \in Whitespace
         THEN (IF Len(word) = 0 THEN {} ELSE {word}) \cup WordsFrom(Tail(s), <<>>)
         ELSE WordsFrom(Tail(s), Cat(word, <<s[1]>>))
Words(s) == WordsFrom(s, <<>>)

\* rerank_score = similarity * 0.7 + (overlap / max(len(query_words), 1)) * 0.3,
\* held as an integer: multiplied by 1000 * max(len(query_words), 1)
RerankScore(similarity_score, keyword_overlap, n_query_words) ==
    similarity_score * 7 * Max(n_query_words, 1) + keyword_overlap * 300

\* a sort that puts a later chunk ahead of an earlier one of the same score
StaysAheadStrict(a, x) == a.rerank_score > x.rerank_score

\* list.sort(key=rerank_score, reverse=True) is descending and stable: a
\* chunk stays ahead of every later chunk whose score is not higher
StaysAhead(a, x) == a.rerank_score >= x.rerank_score

RECURSIVE InsertDesc(_, _)
InsertDesc(sorted, x) ==
    IF Len(sorted) = 0 THEN <<x>>
    ELSE IF StaysAhead(sorted[1], x)
         THEN <<sorted[1]>> \o InsertDesc(Tail(sorted), x)
         ELSE <<x>> \o sorted
RECURSIVE SortDesc(_, _)
SortDesc(chunks, sorted) ==
    IF Len(chunks) = 0 THEN sorted
    ELSE SortDesc(Tail(chunks), InsertDesc(sorted, chunks[1]))

\* ContextRetriever._rerank_chunks
RerankChunks(query, chunks) ==
    LET query_words == Words(Lower(query))
        scored == [i \in 1..Len(chunks) |->
                     [chunks[i] EXCEPT !.rerank_score =
                        RerankScore(chunks[i].similarity_score,
                                    Cardinality(query_words \cap Words(Lower(chunks[i].content))),
                                    Cardinality(query_words))]]
    IN  SortDesc(scored, <<>>)

\* the search result with the fields enrichment and reranking add to it
EnrichedChunk(result, content, full_metadata, found) ==
    [chunk_id |-> result.chunk_id, document_id |-> result.document_id,
     content_preview |-> result.content_preview, metadata |-> result.metadata,
     similarity_score |-> result.similarity_score, vector_id |-> result.vector_id,
     content |-> content, full_metadata |-> full_metadata,
     found |-> found, rerank_score |-> 0]

\* (a fallback that leaves the content of a missing record empty)
PreviewFallbackEmpty(result) == EnrichedChunk(result, <<>>, result.metadata, FALSE)

\* _enrich_chunks_with_content, lines 124-131: the chunk record is missing
PreviewFallback(result) ==
    EnrichedChunk(result, result.content_preview, result.metadata, FALSE)

\* ContextRetriever._enrich_chunks_with_content: the document store holds
\* the record of every pool chunk outside "missing"; the lookups of the
\* chunks in "failing" raise
RECURSIVE EnrichChunks(_, _, _)
EnrichChunks(search_results, missing, failing) ==
    IF Len(search_results) = 0 THEN <<>>
    ELSE LET result == search_results[1]
             rest == EnrichChunks(Tail(search_results), missing, failing)
         IN  IF result.chunk_id \in failing THEN rest
             ELSE IF result.chunk_id \notin missing
                  THEN <<EnrichedChunk(result, PoolContent(result.chunk_id),
                                       PoolChunk(result.chunk_id).metadata, TRUE)>> \o rest
                  ELSE <<PreviewFallback(result)>> \o rest

\* (a filter that lets every candidate through)
FilterKeepsAll(search_results, document_ids) == search_results

\* retrieve_context, lines 69-74: the document-id filter
FilterByDocuments(search_results, document_ids) ==
    IF document_ids = {} THEN search_results
    ELSE SelectSeq(search_results, LAMBDA r : r.document_id \in document_ids)

\* ContextRetriever.retrieve_context: the response and what the call did
RetrieveContextResult(bi, bm, L, query, query_embedding, document_ids, loadFault, missing, failing) ==
    LET init == InitializeIndexResult(bi, bm, loadFault)
        found == Search(init.store.index, init.store.metadata, query_embedding,
                        TopK, SimilarityThreshold)
        search_results == FilterByDocuments(found, document_ids)
        enriched == EnrichChunks(search_results, missing, failing)
        chunks == RerankChunks(query, enriched)
        context == FormatContext(chunks, L, TRUE)
        none == [NoRetrieval EXCEPT !.pc = "done", !.max_context_length = L,
                                    !.query = query, !.document_ids = document_ids]
        inited == [none EXCEPT !.embedded = TRUE, !.init_called = TRUE,
                               !.init_ret = init.ret,
                               !.read_failed = LoadReadFailed(bi, bm, loadFault)]
    IN  IF Len(Strip(query)) = 0 \/ Len(query_embedding) = 0 THEN none
        ELSE IF ~init.ret \/ Len(found) = 0 THEN inited
        ELSE [inited EXCEPT
              !.found = Len(found),
              !.lookups = {search_results[i].chunk_id : i \in 1..Len(search_results)},
              !.lookup_failed = \E i \in 1..Len(search_results) :
                                    search_results[i].chunk_id \in failing,
              !.used = Len(FormatParts(chunks, 0, <<>>, 0, L, TRUE)),
              !.missing = missing,
              !.failing = failing,
              !.candidates = search_results,
              !.enriched = enriched,
              !.response =
                [context |-> context, chunks |-> chunks,
                 metadata |->
                   [query |-> query,
                    total_chunks_found |-> Len(search_results),
                    chunks_used |-> Len(chunks),
                    context_length |-> StrLen(context),
                    similarity_scores |-> [i \in 1..Len(chunks) |-> chunks[i].similarity_score],
                    document_sources |-> {chunks[i].document_id : i \in 1..Len(chunks)}]]]

\* EmbeddingGenerator.generate_query_embedding: None for a blank query,
\* else what the provider answers (a vector, or None when the call raises)
ProviderQueryEmbedding(query, answer) ==
    IF Len(Strip(query)) = 0 THEN None ELSE answer

\* what is persisted for the owner when the query arrives
NoBlobs == [blobIndex |-> [exists |-> FALSE, vectors |-> <<>>],
            blobMeta |-> [exists |-> FALSE, doc |-> EmptyDict]]
StoreAfterAdd(chunks) ==
    AddChunksResult(NoIndex, EmptyDict, NoBlobs.blobIndex, NoBlobs.blobMeta,
                    chunks, "none", "none")
StoreAfterAddRemove(chunks, d) ==
    LET a == StoreAfterAdd(chunks)
    IN  RemoveDocumentResult(a.index, a.metadata, a.blobIndex, a.blobMeta, d, "none")
RagStartStores ==
    {NoBlobs} \cup
    {[blobIndex |-> r.blobIndex, blobMeta |-> r.blobMeta] :
        r \in {StoreAfterAdd(<<ChunkA, ChunkB>>), StoreAfterAdd(<<ChunkB, ChunkN, ChunkA>>),
               StoreAfterAdd(<<ChunkB, ChunkA, ChunkC>>),
               StoreAfterAddRemove(<<ChunkA, ChunkB>>, "d1")}}

Queries == {Text(PreviewLen), Str(<<"Z", "z", " ", "B">>), Run(" ", 2)}
QueryEmbeddings == {<<3, 4>>, <<8, 6>>, <<7, 0>>, None}
DocumentFilters == {{}, {"d1"}, {"d2"}}

RagInit ==
    /\ StoreIdle
    /\ RaceIdle
    /\ GenIdle
    /\ FmtIdle
    /\ \E st \in RagStartStores : blobIndex = st.blobIndex /\ blobMeta = st.blobMeta
    /\ \E L \in FmtLimits : rag = [NoRetrieval EXCEPT !.pc = "call", !.max_context_length = L]
    /\ SearchIdle
    /\ IngestIdle
    /\ RunIdle
    /\ ChunkIdle
    /\ TokIdle

\* ContextRetriever.retrieve_context: one whole call
RetrieveContext ==
    /\ rag.pc = "call"
    /\ \E query \in Queries, answer \in QueryEmbeddings, document_ids \in DocumentFilters,
          loadFault \in LoadFaults, missing \in SUBSET {ChunkA.id, ChunkB.id},
          failing \in {{}, {ChunkA.id}} :
            /\ (~(blobIndex.exists /\ blobMeta.exists) => loadFault = "none")
            /\ rag' = RetrieveContextResult(blobIndex, blobMeta, rag.max_context_length, query,
                                            ProviderQueryEmbedding(query, answer),
                                            document_ids, loadFault, missing, failing)
    /\ UNCHANGED <<storeVars, blobVars, writers, gen, fmt, srch, ing, chk, tok, run>>

RagNext == RetrieveContext

SpecRetrieve == RagInit /\ [][RagNext]_vars

\* ------------------------------------------------------------- search calls
\* the stores a search is made on: a fresh instance, a new empty index, and
\* stores that added chunks and removed a document
SearchStartStores ==
    {[index |-> NoIndex, metadata |-> EmptyDict,
      blobIndex |-> NoBlobs.blobIndex, blobMeta |-> NoBlobs.blobMeta],
     [index |-> CreateNewIndex.index, metadata |-> CreateNewIndex.metadata,
      blobIndex |-> NoBlobs.blobIndex, blobMeta |-> NoBlobs.blobMeta]} \cup
    {[index |-> r.index, metadata |-> r.metadata,
      blobIndex |-> r.blobIndex, blobMeta |-> r.blobMeta] :
        r \in {StoreAfterAdd(<<ChunkA, ChunkB>>), StoreAfterAdd(<<ChunkB, ChunkN, ChunkA>>),
               StoreAfterAddRemove(<<ChunkA, ChunkB>>, "d1"),
               StoreAfterAddRemove(<<ChunkA, ChunkB>>, "d2")}}

SearchQueries == {<<3, 4>>, <<8, 6>>, <<7, 0>>, <<0, 5>>, <<1, 2, 2>>}
ScoreThresholds == {0, SimilarityThreshold, UnitScale * UnitScale}

SearchInit ==
    /\ RaceIdle
    /\ GenIdle
    /\ FmtIdle
    /\ RagIdle
    /\ lastCall = NoCall
    /\ assignLog = <<>>
    /\ faults = 0
    /\ \E st \in SearchStartStores :
          /\ index = st.index
          /\ metadata = st.metadata
          /\ blobIndex = st.blobIndex
          /\ blobMeta = st.blobMeta
    /\ srch = [NoSearch EXCEPT !.pc = "call"]
    /\ IngestIdle
    /\ RunIdle
    /\ ChunkIdle
    /\ TokIdle

\* FAISSVectorStore.search: one whole call
SearchCall ==
    /\ srch.pc = "call"
    /\ \E query_embedding \in SearchQueries, k \in 1..TopK, score_threshold \in ScoreThresholds :
          srch' = [pc |-> "done", query_embedding |-> query_embedding, k |-> k,
                   score_threshold |-> score_threshold,
                   results |-> Search(index, metadata, query_embedding, k, score_threshold)]
    /\ UNCHANGED <<storeVars, blobVars, writers, gen, fmt, rag, ing, chk, tok, run>>

SearchNext == SearchCall

SpecSearch == SearchInit /\ [][SearchNext]_vars

\* ------------------------------------------------------- document ingestion
\* generate_embeddings as a function of the provider's outcome per batch:
\* the batches that start at a position in "failed" get no embeddings
RECURSIVE EmbedBatches(_, _, _)
EmbedBatches(valid, pos, failed) ==
    IF pos >= Len(valid) THEN <<>>
    ELSE LET batch == BatchAt(valid, pos)
             embeddings == [k \in 1..Len(batch) |->
                              IF pos \in failed THEN None
                              ELSE ProviderEmbedding(batch[k].content)]
         IN  ProcessBatch(batch, embeddings) \o EmbedBatches(valid, pos + BatchSize, failed)

GenerateEmbeddingsResult(chunks, failed) ==
    IF Len(chunks) = 0 THEN <<>> ELSE EmbedBatches(ValidateChunks(chunks), 0, failed)

\* the record chunk_ref.set(...) writes for a chunk, lines 235-240
ChunkRecord(chunk) ==
    [id |-> chunk.id,
     fields |-> [content |-> chunk.content, metadata |-> chunk.metadata,
                 embedding |-> chunk.embedding, createdAt |-> "SERVER_TIMESTAMP"]]

\* _process_document_async from the chunking on
ProcessDocumentResult(bi, bm, chunks, failed, has_user, loadFault, saveFault) ==
    LET chunks_with_embeddings == GenerateEmbeddingsResult(chunks, failed)
        records == [i \in 1..Len(chunks_with_embeddings) |->
                        ChunkRecord(chunks_with_embeddings[i])]
        r == AddChunksResult(NoIndex, EmptyDict, bi, bm, chunks_with_embeddings,
                             loadFault, saveFault)
        base == [NoIngestion EXCEPT !.pc = "done", !.chunks = chunks,
                                    !.has_user = has_user]
    IN  IF Len(chunks) = 0
        THEN [ing |-> [base EXCEPT !.status = "failed"], blobIndex |-> bi, blobMeta |-> bm]
        ELSE IF ~has_user
        THEN [ing |-> [base EXCEPT !.status = "completed",
                                   !.embedded = chunks_with_embeddings,
                                   !.records = records],
              blobIndex |-> bi, blobMeta |-> bm]
        ELSE [ing |-> [base EXCEPT !.status = "completed",
                                   !.embedded = chunks_with_embeddings,
                                   !.records = records,
                                   !.add_called = TRUE,
                                   !.add_ret = r.ret,
                                   !.store = [index |-> r.index, metadata |-> r.metadata]],
              blobIndex |-> r.blobIndex, blobMeta |-> r.blobMeta]

\* the chunks text_chunker hands over: stripped, non-empty contents
IngestContents == {Text(3), Text(5)}

IngestInit ==
    /\ StoreIdle
    /\ RaceIdle
    /\ GenIdle
    /\ FmtIdle
    /\ RagIdle
    /\ SearchIdle
    /\ \E st \in RaceStartStores : blobIndex = st.blobIndex /\ blobMeta = st.blobMeta
    /\ ing = [NoIngestion EXCEPT !.pc = "call"]
    /\ ChunkIdle
    /\ TokIdle
    /\ RunIdle

\* _process_document_async: one whole run
ProcessDocument ==
    /\ ing.pc = "call"
    /\ \E n \in 0..MaxChunks : \E contents \in [1..n -> IngestContents] :
         \E failed \in SUBSET {p \in 0..(n - 1) : p % BatchSize = 0},
            has_user \in BOOLEAN, loadFault \in LoadFaults, saveFault \in SaveFaults :
            LET chunks == [i \in 1..n |-> EmbedChunk(i - 1, contents[i])]
                r == ProcessDocumentResult(blobIndex, blobMeta, chunks, failed, has_user,
                                           loadFault, saveFault)
            IN  /\ (~(blobIndex.exists /\ blobMeta.exists) => loadFault = "none")
                /\ (~has_user \/ n = 0 => loadFault = "none" /\ saveFault = "none")
                /\ ing' = r.ing
                /\ blobIndex' = r.blobIndex
                /\ blobMeta' = r.blobMeta
    /\ UNCHANGED <<storeVars, writers, gen, fmt, rag, srch, chk, tok, run>>

IngestNext == ProcessDocument

SpecIngest == IngestInit /\ [][IngestNext]_vars

\* ------------------------------------------------------------- text chunker
\* the positions at which an occurrence of sub in text can start: sub
\* starts with a run of characters, so inside a run of the text of these
\* characters, and where sub goes on with other characters, at the place
\* that makes the two runs end together
StartCandidates(text, sub) ==
    IF Len(sub) = 0 THEN 0..StrLen(text)
    ELSE UNION {LET end == StrLen(SubSeq(text, 1, k))
                IN  IF Len(sub) = 1 THEN (end - text[k].n)..(end - sub[1].n)
                    ELSE {end - sub[1].n} :
                k \in {j \in 1..Len(text) : text[j].c = sub[1].c /\ text[j].n >= sub[1].n}}

\* the positions at which sub occurs in text
Occurrences(text, sub) ==
    {i \in StartCandidates(text, sub) : IsPrefix(sub, Drop(text, i))}

\* text.find(sub, start): the lowest position >= start at which sub occurs,
\* -1 when there is none; a negative start counts from the end of the text
Find(text, sub, start) ==
    LET from == IF start < 0 THEN Max(StrLen(text) + start, 0) ELSE start
        found == {i \in Occurrences(text, sub) : i >= from}
    IN  IF found = {} THEN -1 ELSE CHOOSE i \in found : \A j \in found : i <= j

\* "--- Page p ---"
PageNumbers == {1, 2}
PageMarker(p) ==
    Cat(Cat(Str(<<"-", "-", "-", " ", "P", "a", "g", "e", " ">>), IntToStr(p)),
        Str(<<" ", "-", "-", "-">>))

\* "# title", a markdown heading line
HeadingTitles == {Run("t", 4), Run("u", 5)}
HeadingLine(title) == Cat(Str(<<"#", " ">>), title)

\* a paragraph of n characters without blanks, closed by a full stop
Body(c, n) == Cat(Run(c, n - 1), Run(".", 1))

\* the paragraphs the texts are made of: markers, headings and bodies, each
\* of them shorter than chunk_size
Paragraphs ==
    {PageMarker(1), PageMarker(2), HeadingLine(Run("t", 4)), HeadingLine(Run("u", 5)),
     Body("s", 150), Body("m", 400), Body("l", 900)}

\* TextChunker._preprocess_text on a text without carriage returns and
\* control characters: three or more newlines become two, a run of blanks
\* becomes one blank, then strip()
PreprocessText(text) ==
    Strip([i \in 1..Len(text) |->
              IF text[i].c = "\n" /\ text[i].n >= 3 THEN [c |-> "\n", n |-> 2]
              ELSE IF text[i].c = " " THEN [c |-> " ", n |-> 1]
              ELSE text[i]])

\* re.finditer(page_pattern, text)
PageMatches(text) ==
    UNION {{[page_number |-> p, start_index |-> i,
             end_index |-> i + StrLen(PageMarker(p))] :
                i \in Occurrences(text, PageMarker(p))} : p \in PageNumbers}

\* re.finditer(heading_pattern, text, re.MULTILINE): a heading is a whole line
HeadingMatches(text) ==
    UNION {{[title |-> t, start_index |-> i, end_index |-> i + StrLen(HeadingLine(t))] :
                i \in {j \in Occurrences(text, HeadingLine(t)) :
                         /\ (j = 0 \/ SubStr(text, j - 1, j) = Run("\n", 1))
                         /\ LET e == j + StrLen(HeadingLine(t))
                            IN  e = StrLen(text) \/ SubStr(text, e, e + 1) = Run("\n", 1)}} :
           t \in HeadingTitles}

\* TextChunker._extract_structure
ExtractStructure(text) == [pages |-> PageMatches(text), headings |-> HeadingMatches(text)]

\* the match re.search returns: the one that starts first
FirstMatch(matches) == CHOOSE x \in matches : \A y \in matches : x.start_index <= y.start_index

\* TextChunker._get_page_number; 0 is None
GetPageNumber(chunk_text, structure_info) ==
    IF PageMatches(chunk_text) = {} THEN 0
    ELSE FirstMatch(PageMatches(chunk_text)).page_number

\* TextChunker._get_section_title; the empty text is None
GetSectionTitle(chunk_text, structure_info) ==
    IF HeadingMatches(chunk_text) = {} THEN <<>>
    ELSE FirstMatch(HeadingMatches(chunk_text)).title

\* the pieces the splitter cuts the cleaned text into at "\n\n", each piece
\* but the first with its separator in front (keep_separator=True)
RECURSIVE ParagraphPieces(_, _)
ParagraphPieces(ps, at) ==
    IF Len(ps) = 0 THEN <<>>
    ELSE LET end == at + StrLen(ps[1]) + (IF at = 0 THEN 0 ELSE 2)
         IN  <<[start |-> at, end |-> end]>> \o ParagraphPieces(Tail(ps), end)

RECURSIVE PiecesLength(_)
PiecesLength(cur) ==
    IF Len(cur) = 0 THEN 0 ELSE (cur[1].end - cur[1].start) + PiecesLength(Tail(cur))

\* the splitter drops pieces from the front of the chunk it has just closed
\* until what is left fits the overlap and the next piece fits the chunk
RECURSIVE DropForOverlap(_, _)
DropForOverlap(cur, len) ==
    LET total == PiecesLength(cur)
    IN  IF total > ChunkOverlap \/ (total + len > ChunkSize /\ total > 0)
        THEN DropForOverlap(Tail(cur), len)
        ELSE cur

\* the chunk of the pieces cur: their text, stripped, and where it starts
MergedChunk(cleaned_text, cur) ==
    IF Len(cur) = 0 THEN <<>>
    ELSE LET raw == SubStr(cleaned_text, cur[1].start, cur[Len(cur)].end)
         IN  IF Len(Strip(raw)) = 0 THEN <<>>
             ELSE <<[text |-> Strip(raw),
                     at |-> cur[1].start + StrLen(raw) - StrLen(LStrip(raw))]>>

\* splitter.split_text: pieces are merged while they fit chunk_size, the
\* length of a piece being its token count
RECURSIVE MergeSplits(_, _, _, _)
MergeSplits(cleaned_text, pieces, cur, docs) ==
    IF Len(pieces) = 0 THEN docs \o MergedChunk(cleaned_text, cur)
    ELSE LET d == pieces[1]
             len == d.end - d.start
         IN  IF PiecesLength(cur) + len > ChunkSize /\ Len(cur) > 0
             THEN MergeSplits(cleaned_text, Tail(pieces),
                              Append(DropForOverlap(cur, len), d),
                              docs \o MergedChunk(cleaned_text, cur))
             ELSE MergeSplits(cleaned_text, Tail(pieces), Append(cur, d), docs)

\* chunk_text, lines 92-135: the loop over the chunks of the splitter
RECURSIVE ProcessChunks(_, _, _, _, _)
ProcessChunks(cleaned_text, text_chunks, i, current_position, structure_info) ==
    IF i >= Len(text_chunks) THEN <<>>
    ELSE LET chunk_text == text_chunks[i + 1].text
             found == Find(cleaned_text, chunk_text, current_position)
             start_index == IF found = -1 THEN current_position ELSE found
             end_index == start_index + StrLen(chunk_text)
         IN  IF StrLen(Strip(chunk_text)) < MinChunkSize
             THEN ProcessChunks(cleaned_text, text_chunks, i + 1, current_position,
                                structure_info)
             ELSE <<[content |-> Strip(chunk_text),
                     start_index |-> start_index,
                     end_index |-> end_index,
                     token_count |-> TokenCount(chunk_text),
                     character_count |-> StrLen(chunk_text),
                     page_number |-> GetPageNumber(chunk_text, structure_info),
                     section_title |-> GetSectionTitle(chunk_text, structure_info),
                     chunk_index |-> i,
                     at |-> text_chunks[i + 1].at]>>
                  \o ProcessChunks(cleaned_text, text_chunks, i + 1,
                                   end_index - ChunkOverlap, structure_info)

\* TextChunker.chunk_text for a text made of these paragraphs
ChunkTextResult(ps, newlines) ==
    LET text == Join(ps, Run("\n", newlines))
        cleaned_text == PreprocessText(text)
        structure_info == ExtractStructure(cleaned_text)
        text_chunks == MergeSplits(cleaned_text, ParagraphPieces(ps, 0), <<>>, <<>>)
    IN  IF Len(Strip(text)) = 0
        THEN [NoChunking EXCEPT !.pc = "done", !.text = text]
        ELSE [pc |-> "done", text |-> text, cleaned_text |-> cleaned_text,
              structure_info |-> structure_info, splits |-> text_chunks,
              chunks |-> ProcessChunks(cleaned_text, text_chunks, 0, 0, structure_info)]

ChunkInit ==
    /\ StoreIdle
    /\ RaceIdle
    /\ GenIdle
    /\ FmtIdle
    /\ RagIdle
    /\ SearchIdle
    /\ IngestIdle
    /\ RunIdle
    /\ TokIdle
    /\ blobIndex = NoBlobs.blobIndex
    /\ blobMeta = NoBlobs.blobMeta
    /\ chk = [NoChunking EXCEPT !.pc = "call"]

\* TextChunker.chunk_text: one whole call
ChunkText ==
    /\ chk.pc = "call"
    /\ \E n \in 0..MaxParagraphs : \E ps \in [1..n -> Paragraphs], newlines \in {2, 3} :
          chk' = ChunkTextResult(ps, newlines)
    /\ UNCHANGED <<storeVars, blobVars, writers, gen, fmt, rag, srch, ing, tok, run>>

ChunkNext == ChunkText

SpecChunk == ChunkInit /\ [][ChunkNext]_vars

\* ------------------------------------------------------------ token counter
\* the models a TokenCounter is configured with, one per multiplier family
\* and one outside every family
TokModels == {"meta-llama/llama-3.2-11b-vision-instruct:free", "google/gemma-2-9b-it:free",
              "microsoft/phi-3-mini-128k-instruct:free", "gpt-4"}

\* TokenCounter._get_model_multiplier, in tenths
ModelMultiplier(model) ==
    IF model = "meta-llama/llama-3.2-11b-vision-instruct:free" THEN 12
    ELSE IF model = "google/gemma-2-9b-it:free" THEN 11
    ELSE 10

\* TokenCounter.count_tokens: int(len(encode(text)) * multiplier)
CountTokens(text, model) ==
    IF Len(text) = 0 THEN 0 ELSE (TokenCount(text) * ModelMultiplier(model)) \div 10

\* TokenCounter.truncate_to_token_limit
TruncateToTokenLimit(text, max_tokens, preserve_end, model) ==
    IF Len(text) = 0 THEN text
    ELSE IF CountTokens(text, model) <= max_tokens THEN text
    ELSE IF preserve_end THEN Drop(text, Max(TokenCount(text) - max_tokens, 0))
    ELSE TruncateToTokens(text, max_tokens)

TokTexts == {<<>>, Text(3), Text(9), Text(12), Text(50)}
TokLimits == {1, 4, 10, 40}

TokInit ==
    /\ StoreIdle
    /\ RaceIdle
    /\ GenIdle
    /\ FmtIdle
    /\ RagIdle
    /\ SearchIdle
    /\ IngestIdle
    /\ RunIdle
    /\ ChunkIdle
    /\ blobIndex = NoBlobs.blobIndex
    /\ blobMeta = NoBlobs.blobMeta
    /\ \E model \in TokModels, text \in TokTexts, max_tokens \in TokLimits :
          tok = [NoTokens EXCEPT !.pc = "call", !.model = model, !.text = text,
                                 !.max_tokens = max_tokens]

\* truncate_to_token_limit: one whole call
TruncateCall ==
    /\ tok.pc = "call"
    /\ \E preserve_end \in BOOLEAN :
          tok' = [tok EXCEPT !.pc = IF preserve_end THEN "done_end" ELSE "done",
                             !.result = TruncateToTokenLimit(tok.text, tok.max_tokens,
                                                             preserve_end, tok.model)]
    /\ UNCHANGED <<storeVars, blobVars, writers, gen, fmt, rag, srch, ing, chk, run>>

TokNext == TruncateCall

SpecTokens == TokInit /\ [][TokNext]_vars

\* ------------------------------------------------- document ingestion, by step
\* doc_ref.update({'status': status}): the write raises when it fails,
\* and at most MaxFaults writes of a run fail
StatusWrite(status, failed) ==
    IF failed THEN [run EXCEPT !.write_faults = @ + 1]
    ELSE [run EXCEPT !.status = status, !.log = Append(@, status)]

\* the positions at which the batches of n chunks start
BatchStarts(n) == {p \in 0..(n - 1) : p % BatchSize = 0}

RunInit ==
    /\ StoreIdle
    /\ RaceIdle
    /\ GenIdle
    /\ FmtIdle
    /\ RagIdle
    /\ SearchIdle
    /\ IngestIdle
    /\ ChunkIdle
    /\ TokIdle
    /\ blobIndex = NoBlobs.blobIndex
    /\ blobMeta = NoBlobs.blobMeta
    /\ \E file_path \in BOOLEAN, extraction \in {"ok", "error"}, n \in 0..MaxChunks,
          storage \in {"ok", "error"} :
         \E provider_failed \in SUBSET BatchStarts(n) :
            run = [NoRun EXCEPT !.pc = "triggered", !.file_path = file_path,
                                !.extraction = extraction, !.n_chunks = n,
                                !.provider_failed = provider_failed, !.storage = storage]

\* _process_document_async, lines 199-203: status 'processing'
RunMarkProcessing ==
    /\ run.pc = "triggered"
    /\ \E failed \in BOOLEAN :
         /\ (failed => run.write_faults < MaxFaults)
         /\ run' = [StatusWrite("processing", failed) EXCEPT
                      !.pc = IF failed THEN "inner_except" ELSE "steps"]
    /\ UNCHANGED <<storeVars, blobVars, writers, gen, fmt, rag, srch, ing, chk, tok>>

\* _process_document_async, lines 205-250: extraction, chunking, embedding,
\* chunk storage and the index update; a step that raises ends the try block
RunSteps ==
    /\ run.pc = "steps"
    /\ LET raised == IF ~run.file_path THEN "no_file_path"
                     ELSE IF run.extraction = "error" THEN "extraction"
                     ELSE IF run.n_chunks = 0 THEN "no_chunks"
                     ELSE IF run.storage = "error" THEN "chunk_storage"
                     ELSE "none"
           embedded == IF raised \in {"none", "chunk_storage"}
                       THEN Cardinality({i \in 0..(run.n_chunks - 1) :
                                (i \div BatchSize) * BatchSize \notin run.provider_failed})
                       ELSE 0
       IN  run' = [run EXCEPT !.raised = raised, !.embedded = embedded,
                              !.pc = IF raised = "none" THEN "completing" ELSE "inner_except"]
    /\ UNCHANGED <<storeVars, blobVars, writers, gen, fmt, rag, srch, ing, chk, tok>>

\* _process_document_async, lines 253-264: status 'completed'
RunMarkCompleted ==
    /\ run.pc = "completing"
    /\ \E failed \in BOOLEAN :
         /\ (failed => run.write_faults < MaxFaults)
         /\ run' = [StatusWrite("completed", failed) EXCEPT
                      !.pc = IF failed THEN "inner_except" ELSE "returned"]
    /\ UNCHANGED <<storeVars, blobVars, writers, gen, fmt, rag, srch, ing, chk, tok>>

\* _process_document_async, lines 268-275: status 'failed', then raise
RunInnerExcept ==
    /\ run.pc = "inner_except"
    /\ \E failed \in BOOLEAN :
         /\ (failed => run.write_faults < MaxFaults)
         /\ run' = [StatusWrite("failed", failed) EXCEPT !.pc = "outer_except"]
    /\ UNCHANGED <<storeVars, blobVars, writers, gen, fmt, rag, srch, ing, chk, tok>>

\* process_document, lines 182-192: status 'failed'; an exception of this
\* write leaves the trigger
RunOuterExcept ==
    /\ run.pc = "outer_except"
    /\ \E failed \in BOOLEAN :
         /\ (failed => run.write_faults < MaxFaults)
         /\ run' = [StatusWrite("failed", failed) EXCEPT
                      !.pc = IF failed THEN "raised" ELSE "returned"]
    /\ UNCHANGED <<storeVars, blobVars, writers, gen, fmt, rag, srch, ing, chk, tok>>

RunNext ==
    \/ RunMarkProcessing
    \/ RunSteps
    \/ RunMarkCompleted
    \/ RunInnerExcept
    \/ RunOuterExcept

\* the trigger runs to its end: every step that can be taken is taken
SpecIngestRun == RunInit /\ [][RunNext]_vars /\ WF_vars(RunNext)

\* ======================================================== store properties
Entries == AllEntries(metadata.document_chunks)
SeqPrefix(p, q) == Len(p) <= Len(q) /\ SubSeq(q, 1, Len(p)) = p
NoDuplicates(q) == \A i, j \in 1..Len(q) : i # j => q[i] # q[j]

\* C2: in every state of a store instance that holds an index,
\* metadata['total_vectors'] equals the index's element count ntotal.
C2_TotalVectorsIsNtotal ==
    index.loaded => metadata.total_vectors = ntotal(index)

\* C3: every entry of metadata['document_chunks'] has a vector_id v with
\* 0 <= v < ntotal, after any sequence of add_chunks and remove_document.
C3_VectorIdInIndex ==
    \A e \in Entries : 0 <= e.entry.vector_id /\ e.entry.vector_id < ntotal(index)

\* the element count the index has when add_chunks starts inserting
CountBefore ==
    IF index.loaded THEN ntotal(index)
    ELSE IF blobIndex.exists /\ blobMeta.exists /\ ~lastCall'.readFailed
         THEN Len(blobIndex.vectors) ELSE 0

\* C4: add_chunks appends the vectors in the batch's input order and gives
\* the i-th inserted vector vector_id = (element count before) + i; a
\* vector_id once assigned stays with its entry and is never handed out a
\* second time during the life of the index, also after remove_document.
C4_Step ==
    /\ (lastCall'.op = "add_chunks" /\ lastCall'.startId >= 0) =>
          LET ins == lastCall'.inserted
          IN  /\ ntotal(index') = CountBefore + Len(ins)
              /\ \A i \in 1..Len(ins) :
                    /\ index'.vectors[CountBefore + i] = NormalizeL2(PoolChunk(ins[i]).embedding)
                    /\ \E e \in AllEntries(metadata'.document_chunks) :
                          /\ e.entry.vector_id = CountBefore + i - 1
                          /\ e.entry.chunk_id = ins[i]
                          /\ e.document_id = PoolChunk(ins[i]).document_id
    /\ (index.loaded /\ lastCall'.op \in {"add_chunks", "remove_document"}) =>
          \A p \in 1..Len(metadata.document_chunks) :
             LET d == metadata.document_chunks[p].document_id
             IN  \/ lastCall'.op = "remove_document" /\ lastCall'.doc = d
                 \/ SeqPrefix(metadata.document_chunks[p].chunks,
                              DocEntries(metadata'.document_chunks, d))
    /\ NoDuplicates(assignLog')
    /\ \A e, f \in AllEntries(metadata'.document_chunks) :
          e.pos # f.pos => e.entry.vector_id # f.entry.vector_id

C4_VectorIdsAssignedOnce == [][C4_Step]_vars

\* C5: the content_preview of every entry is a prefix of the chunk's content
\* and has at most PreviewLen characters.
C5_PreviewIsBoundedPrefix ==
    \A e \in Entries :
        /\ IsPrefix(e.entry.content_preview, PoolContent(e.entry.chunk_id))
        /\ StrLen(e.entry.content_preview) <= PreviewLen

\* C6: when two add_chunks calls of one owner run concurrently, the persisted
\* index blob and the persisted metadata document, once both calls have
\* returned True, are the pair written by one of the two writers.
C6_PersistedPairFromOneWriter ==
    (\A w \in Writers : writers[w].pc = "done" /\ writers[w].ret) =>
        \E w \in Writers :
            /\ blobIndex.vectors = writers[w].index.vectors
            /\ blobMeta.doc = writers[w].metadata

\* the store holds the persisted pair / a new empty index
HoldsPersistedPair ==
    /\ blobIndex.exists /\ blobMeta.exists
    /\ index = [loaded |-> TRUE, vectors |-> blobIndex.vectors]
    /\ metadata = blobMeta.doc
HoldsNewIndex ==
    /\ index = [loaded |-> TRUE, vectors |-> <<>>]
    /\ metadata = [filled |-> TRUE, dimension |-> EmbeddingDimension,
                   total_vectors |-> 0, document_chunks |-> <<>>]

\* C11: initialize_index ends in exactly one of two outcomes: the persisted
\* index and metadata both loaded, or a new empty index of the configured
\* dimension with total_vectors 0 and an empty document map; it is the new
\* index whenever either artifact is missing, and never a mix of the two.
C11_LoadOrCreate ==
    lastCall.op = "initialize_index" =>
        /\ HoldsPersistedPair \/ HoldsNewIndex
        /\ ~(HoldsPersistedPair /\ HoldsNewIndex)
        /\ (~(blobIndex.exists /\ blobMeta.exists) => HoldsNewIndex)

\* initialize_index met an index blob whose metadata document is missing
C11_Witness ==
    /\ lastCall.op = "initialize_index"
    /\ blobIndex.exists /\ ~blobMeta.exists
    /\ HoldsNewIndex

\* C13: remove_document(d) changes only the metadata map: the entries of d
\* are deleted, the index, total_vectors and the entries of every other
\* document stay as they are; when d has no entries the call returns True
\* and changes nothing in memory or in storage.
C13_Step ==
    lastCall'.op = "remove_document" =>
        LET d == lastCall'.doc
        IN  /\ index' = index
            /\ metadata'.total_vectors = metadata.total_vectors
            /\ ~HasDoc(metadata'.document_chunks, d)
            /\ \A o \in DocIds \ {d} :
                  DocEntries(metadata'.document_chunks, o) = DocEntries(metadata.document_chunks, o)
            /\ (~HasDoc(metadata.document_chunks, d) =>
                  /\ lastCall'.ret
                  /\ metadata' = metadata
                  /\ blobIndex' = blobIndex /\ blobMeta' = blobMeta)

C13_RemoveChangesOnlyMetadata == [][C13_Step]_vars

\* a document was removed while another one stays and the vectors remain
C13_Witness ==
    /\ lastCall.op = "remove_document" /\ lastCall.removed
    /\ Entries # {}
    /\ Cardinality(Entries) < ntotal(index)
    /\ metadata.total_vectors = ntotal(index)

\* C12: search returns at most k results, each with similarity_score >=
\* score_threshold and with the chunk_id, document_id and content_preview
\* of a metadata entry whose vector_id is the result's vector_id; on an
\* empty or uninitialized index it returns the empty list.
C12_SearchResults ==
    srch.pc = "done" =>
        /\ Len(srch.results) <= srch.k
        /\ \A i \in 1..Len(srch.results) :
              LET r == srch.results[i]
              IN  /\ r.similarity_score >= srch.score_threshold
                  /\ \E e \in Entries :
                        /\ e.entry.vector_id = r.vector_id
                        /\ e.entry.chunk_id = r.chunk_id
                        /\ e.document_id = r.document_id
                        /\ e.entry.content_preview = r.content_preview
        /\ (~index.loaded \/ ntotal(index) = 0 => srch.results = <<>>)

\* k cut the result list short and the threshold was in force
C12_Witness ==
    /\ srch.pc = "done"
    /\ srch.score_threshold > 0
    /\ Len(srch.results) = srch.k
    /\ ntotal(index) > srch.k

\* ============================================ embedding generator properties
CallsOf(tr) == {j \in 1..Len(tr) : tr[j].kind = "call"}

\* the trace is that of a batch whose retry loop has returned
BatchReturned == gen.attempt = 0 /\ Len(gen.trace) > 0

RetryableAnswers == {"rate_limit", "server_error"}

\* C7: when the embedding of chunk i fails (the provider cannot embed its
\* text) and nothing else goes wrong, generate_embeddings returns the N
\* input chunks in input order, chunk i has embedding None with an error
\* annotation and every other chunk carries its embedding.
C7_FailureIsolatedToChunk ==
    (gen.pc = "done" /\ ~gen.stray /\ Len(gen.valid) = Len(gen.chunks)) =>
        /\ Len(gen.out) = Len(gen.chunks)
        /\ \A i \in 1..Len(gen.out) :
              /\ gen.out[i].id = gen.chunks[i].id
              /\ gen.out[i].id \in gen.poison =>
                    gen.out[i].embedding = None /\ gen.out[i].embedding_error # ""
              /\ gen.out[i].id \notin gen.poison =>
                    gen.out[i].embedding = ProviderEmbedding(gen.valid[i].content)

\* C8: embedding one batch makes at most MaxRetries provider calls, sleeps
\* retry_delay * 2^attempt after a failed attempt and before the next one,
\* and when every attempt met a rate-limit or transient error it returns
\* None for every text of the batch.
C8_RetryBoundedWithBackoff ==
    LET tr == gen.trace
    IN  /\ Cardinality(CallsOf(tr)) <= MaxRetries
        /\ (Cardinality(CallsOf(tr)) = MaxRetries => BatchReturned)
        /\ \A j \in 1..Len(tr) :
              /\ (j = 1 => tr[j].kind = "call" /\ tr[j].attempt = 0)
              /\ (tr[j].kind = "sleep" =>
                    /\ j > 1 /\ tr[j - 1].kind = "call"
                    /\ tr[j].t = RetryDelay * Pow2(tr[j - 1].attempt))
              /\ (tr[j].kind = "call" /\ j > 1 =>
                    /\ j > 2 /\ tr[j - 1].kind = "sleep" /\ tr[j - 2].kind = "call"
                    /\ tr[j].attempt = tr[j - 2].attempt + 1)
        /\ (BatchReturned /\ \A j \in CallsOf(tr) : tr[j].answer \in RetryableAnswers) =>
              /\ Cardinality(CallsOf(tr)) = MaxRetries
              /\ Len(gen.returned) >= 1
              /\ \A k \in 1..Len(gen.returned) :
                    /\ gen.returned[k] = None
                    /\ gen.out[Len(gen.out) - Len(gen.returned) + k].embedding = None

\* a batch of two texts given up after rate-limit and server errors
C8_Witness ==
    /\ BatchReturned
    /\ Cardinality(CallsOf(gen.trace)) = MaxRetries
    /\ \E j \in CallsOf(gen.trace) : gen.trace[j].answer = "rate_limit"
    /\ \E j \in CallsOf(gen.trace) : gen.trace[j].answer = "server_error"
    /\ Len(gen.returned) = 2
    /\ \A k \in 1..Len(gen.returned) : gen.returned[k] = None

\* C9: a fatal provider answer (authentication, bad request) is not retried:
\* it is the only call made for its batch and the batch fails at once.
C9_FatalErrorNotRetried ==
    \A j \in CallsOf(gen.trace) :
        gen.trace[j].answer \in FatalAnswers =>
            /\ CallsOf(gen.trace) = {j}
            /\ BatchReturned

\* ================================================ context retriever properties
\* C1: the string _format_context returns has at most max_context_length
\* characters, with include_metadata enabled or disabled.
C1_ContextWithinBudget ==
    fmt.pc = "done" => StrLen(fmt.context) <= fmt.max_context_length

\* C10: when reading an existing index blob or metadata document fails,
\* initialize_index returns False and retrieve_context returns the empty
\* context response.
C10_ReadFailureGivesEmptyResponse ==
    (rag.pc = "done" /\ rag.read_failed) =>
        /\ rag.init_ret = FALSE
        /\ rag.response = EmptyContextResponse

\* C15: with a non-empty document_ids filter every chunk of the result and
\* every id in metadata.document_sources belongs to the filter, and no
\* document-store lookup is made for a candidate of a document outside it.
C15_FilterBeforeEnrichment ==
    (rag.pc = "done" /\ rag.document_ids # {}) =>
        /\ \A i \in 1..Len(rag.response.chunks) :
              rag.response.chunks[i].document_id \in rag.document_ids
        /\ rag.response.metadata.document_sources \subseteq rag.document_ids
        /\ \A id \in rag.lookups : PoolChunk(id).document_id \in rag.document_ids

\* the search found chunks of two documents and the filter let one through
C15_Witness ==
    /\ rag.pc = "done"
    /\ rag.document_ids = {"d1"}
    /\ rag.found = 2
    /\ Len(rag.response.chunks) = 1
    /\ rag.response.metadata.document_sources = {"d1"}

\* C16: metadata.total_chunks_found is the number of candidates the index
\* search returned, before the document-id filter was applied.
C16_TotalIsFoundBeforeFilter ==
    rag.pc = "done" => rag.response.metadata.total_chunks_found = rag.found

\* C17: metadata.chunks_used is the number of chunks _format_context put
\* into the context string before the character budget stopped it.
C17_ChunksUsedIsIncluded ==
    rag.pc = "done" => rag.response.metadata.chunks_used = rag.used

C19_FailedChunkStoredNotIndexed ==
    (ing.pc = "done" /\ ing.status = "completed" /\ ing.add_called /\ ing.add_ret) =>
        LET entries == AllEntries(ing.store.metadata.document_chunks)
        IN  \A i \in 1..Len(ing.embedded) :
              LET chunk == ing.embedded[i]
              IN  IF chunk.embedding = None
                  THEN /\ \E j \in 1..Len(ing.records) :
                             /\ ing.records[j].id = chunk.id
                             /\ ing.records[j].fields.embedding = None
                             /\ "embedding_error" \in DOMAIN ing.records[j].fields
                       /\ ~\E e \in entries : e.entry.chunk_id = chunk.id
                  ELSE \E e \in entries :
                             /\ e.entry.chunk_id = chunk.id
                             /\ e.document_id = chunk.document_id
                             /\ e.entry.vector_id < ntotal(ing.store.index)

\* C20: the chunks _rerank_chunks returns are the chunks it was given,
\* ordered by rerank_score descending, and chunks of equal rerank_score
\* are in the relative order they had in the list it was given.
C20_RerankDescendingAndStable ==
    (rag.pc = "done" /\ Len(rag.response.chunks) > 0) =>
        LET out == rag.response.chunks
            InputPosition(id) == CHOOSE k \in 1..Len(rag.enriched) : rag.enriched[k].chunk_id = id
        IN  /\ Len(out) = Len(rag.enriched)
            /\ \A k \in 1..Len(rag.enriched) :
                  \E i \in 1..Len(out) : out[i].chunk_id = rag.enriched[k].chunk_id
            /\ \A i, j \in 1..Len(out) :
                  i < j =>
                    /\ out[i].rerank_score >= out[j].rerank_score
                    /\ out[i].rerank_score = out[j].rerank_score =>
                          InputPosition(out[i].chunk_id) < InputPosition(out[j].chunk_id)

\* three chunks: the last of the input has the highest rerank_score and is
\* returned first, the other two have equal scores and keep their order
C20_Witness ==
    /\ rag.pc = "done"
    /\ Len(rag.enriched) = 3 /\ Len(rag.response.chunks) = 3
    /\ rag.response.chunks[1].chunk_id = rag.enriched[3].chunk_id
    /\ rag.response.chunks[1].rerank_score > rag.response.chunks[2].rerank_score
    /\ rag.response.chunks[2].rerank_score = rag.response.chunks[3].rerank_score
    /\ rag.response.chunks[2].chunk_id = rag.enriched[1].chunk_id
    /\ rag.response.chunks[3].chunk_id = rag.enriched[2].chunk_id

\* C21: _validate_chunks returns the input chunks whose content is present
\* and not empty after stripping whitespace, in input order; a chunk within
\* the token limit is returned as it was given, a chunk above the limit is
\* returned cut to the limit, with truncated = true and its original token
\* count in its metadata.
C21_ValidateKeepsNonEmptyAndTruncates ==
    gen.pc \in {"call", "done"} =>
        LET kept == SelectSeq(gen.chunks, LAMBDA c : Len(Strip(c.content)) > 0)
        IN  /\ Len(gen.valid) = Len(kept)
            /\ \A i \in 1..Len(kept) :
                  LET stripped == Strip(kept[i].content)
                  IN  IF TokenCount(stripped) > MaxTokens
                      THEN /\ gen.valid[i].id = kept[i].id
                           /\ IsPrefix(gen.valid[i].content, stripped)
                           /\ TokenCount(gen.valid[i].content) = MaxTokens
                           /\ gen.valid[i].metadata.truncated
                           /\ gen.valid[i].metadata.original_token_count = TokenCount(stripped)
                      ELSE gen.valid[i] = kept[i]

\* three chunks: the first is kept with its leading blank, the second is
\* blank and dropped, the third is above the limit and cut
C21_Witness ==
    /\ gen.pc \in {"call", "done"}
    /\ Len(gen.chunks) = 3 /\ Len(gen.valid) = 2
    /\ gen.chunks[1].content = Cat(Run(" ", 1), Text(4))
    /\ gen.valid[1] = gen.chunks[1]
    /\ gen.chunks[2].content = Run(" ", 2)
    /\ TokenCount(gen.chunks[3].content) > MaxTokens
    /\ gen.valid[2].id = gen.chunks[3].id
    /\ gen.valid[2].metadata.truncated

\* C24: for every model of a TokenCounter, every text and every positive
\* limit n, count_tokens(truncate_to_token_limit(text, n)) <= n.
C24_TruncatedCountWithinLimit ==
    tok.pc \in {"done", "done_end"} => CountTokens(tok.result, tok.model) <= tok.max_tokens

\* C22: for every chunk chunk_text emits, start_index and end_index are
\* character offsets into the cleaned text, 0 <= start_index <= end_index
\* <= len(cleaned text), and the cleaned text between them is the chunk's
\* text, whatever the lengths of the chunks before it.
C22_OffsetsLocateChunk ==
    chk.pc = "done" =>
        \A k \in 1..Len(chk.chunks) :
            LET chunk == chk.chunks[k]
            IN  /\ 0 <= chunk.start_index
                /\ chunk.start_index <= chunk.end_index
                /\ chunk.end_index <= StrLen(chk.cleaned_text)
                /\ SubStr(chk.cleaned_text, chunk.start_index, chunk.end_index) = chunk.content

\* C23: a chunk chunk_text emits has as page_number the number of the
\* nearest page marker that precedes it in the cleaned text and as
\* section_title the title of the nearest heading that precedes it, also
\* when its own text holds no marker.  (A marker or heading precedes the
\* chunk when it starts at or before the place the chunk starts.)
C23_NearestPrecedingMarker ==
    chk.pc = "done" =>
        \A k \in 1..Len(chk.chunks) :
            LET chunk == chk.chunks[k]
                pages == {x \in chk.structure_info.pages : x.start_index <= chunk.at}
                headings == {x \in chk.structure_info.headings : x.start_index <= chunk.at}
                Nearest(xs) == CHOOSE x \in xs : \A y \in xs : y.start_index <= x.start_index
            IN  /\ pages # {} => chunk.page_number = Nearest(pages).page_number
                /\ headings # {} => chunk.section_title = Nearest(headings).title

\* what a persisted metadata document says: its entries, without their place
PersistedEntries(bm) ==
    IF ~bm.exists THEN {}
    ELSE {[document_id |-> e.document_id, entry |-> e.entry] :
            e \in AllEntries(bm.doc.document_chunks)}

\* C25: an add_chunks call that returns True preserves what was persisted
\* before it: the persisted metadata afterwards holds every entry persisted
\* before the call and the entries of the chunks it added, and the
\* persisted index has at least as many vectors as before, whatever
\* happened while the call loaded the existing index.
C25_Step ==
    (lastCall'.op = "add_chunks" /\ lastCall'.ret) =>
        /\ PersistedEntries(blobMeta) \subseteq PersistedEntries(blobMeta')
        /\ \A i \in 1..Len(lastCall'.inserted) :
              \E e \in PersistedEntries(blobMeta') : e.entry.chunk_id = lastCall'.inserted[i]
        /\ (blobIndex.exists => /\ blobIndex'.exists
                                /\ Len(blobIndex'.vectors) >= Len(blobIndex.vectors))

C25_AddPreservesPersisted == [][C25_Step]_vars

\* C26: when add_chunks returns False the store is as it was before the
\* call: the element count of the index in memory, the metadata in memory
\* and both persisted artifacts are unchanged.  (Stated for a store whose
\* index was in memory before the call, so that nothing is loaded.)
C26_Step ==
    (lastCall'.op = "add_chunks" /\ ~lastCall'.ret /\ index.loaded) =>
        /\ ntotal(index') = ntotal(index)
        /\ metadata' = metadata
        /\ blobIndex' = blobIndex
        /\ blobMeta' = blobMeta

C26_FailedAddChangesNothing == [][C26_Step]_vars

\* C27: when initialize_index has loaded both persisted artifacts, the
\* total_vectors of the loaded metadata is the element count of the loaded
\* index and every loaded vector has a metadata entry (no document is
\* removed here), also when another process is in the middle of
\* _save_index while the two artifacts are read.
C27_Step ==
    \A w \in Writers :
        (writers[w].pc = "index_read" /\ writers'[w].pc = "loaded") =>
            /\ writers'[w].metadata.total_vectors = ntotal(writers'[w].index)
            /\ \A v \in 0..(ntotal(writers'[w].index) - 1) :
                  \E e \in AllEntries(writers'[w].metadata.document_chunks) :
                      e.entry.vector_id = v

C27_LoadedPairIsConsistent == [][C27_Step]_vars

\* C28: after adds and removes, search(q, k, t) returns the min(k, m) most
\* similar entries among those still in the metadata map with score >= t,
\* m being the number of such entries: no result belongs to a removed
\* document and the vectors of removed documents take none of the k slots.
C28_SearchOverPresentEntries ==
    (srch.pc = "done" /\ index.loaded /\ Len(srch.query_embedding) = EmbeddingDimension) =>
        LET ScoreOf(e) == Score(srch.query_embedding, index.vectors[e.entry.vector_id + 1])
            present == {e \in Entries : /\ e.entry.vector_id < ntotal(index)
                                        /\ ScoreOf(e) >= srch.score_threshold}
            returned == {e \in present : \E i \in 1..Len(srch.results) :
                                            srch.results[i].vector_id = e.entry.vector_id}
        IN  /\ Len(srch.results) = Min(srch.k, Cardinality(present))
            /\ Cardinality(returned) = Len(srch.results)
            /\ \A e \in returned, o \in present \ returned : ScoreOf(e) >= ScoreOf(o)

\* C29: when ingestion has set the document's status to 'completed', every
\* chunk of the document that has an embedding has an entry in the
\* persisted vector index of the uploading owner.  (Stated for documents
\* that name their uploader.)
C29_CompletedMeansIndexed ==
    (ing.pc = "done" /\ ing.status = "completed" /\ ing.has_user) =>
        \A i \in 1..Len(ing.embedded) :
            ing.embedded[i].embedding # None =>
                \E e \in PersistedEntries(blobMeta) :
                    /\ e.entry.chunk_id = ing.embedded[i].id
                    /\ blobIndex.exists
                    /\ e.entry.vector_id < Len(blobIndex.vectors)

\* within a run 'completed' is not written after 'failed'
C30_NoCompletedAfterFailed ==
    \A i, j \in 1..Len(run.log) : i < j => ~(run.log[i] = "failed" /\ run.log[j] = "completed")

\* a run that set 'processing' and in which a step failed ends with 'failed'
C30_StepFailureGivesFailed ==
    (run.pc \in {"returned", "raised"} /\ "processing" \in {run.log[i] : i \in 1..Len(run.log)}) =>
        ((run.raised # "none" \/ run.embedded = 0) => run.status = "failed")

\* C30: a run of the trigger that has set the status to 'processing' sets
\* it to 'completed' or 'failed' in the end and does not leave it at
\* 'processing'; within the run 'completed' is not written after 'failed';
\* and when a step has failed (extraction, no chunks from chunking, the
\* embedding of every chunk, chunk storage) the run ends with 'failed'.
C30_StatusLeavesProcessing ==
    /\ [](C30_NoCompletedAfterFailed /\ C30_StepFailureGivesFailed)
    /\ (run.status = "processing") ~> (run.status \in {"completed", "failed"})

\* C14: retrieve_context returns the canonical empty response (context "",
\* no chunks, every counter zero) when the query embedding fails, when the
\* index cannot be initialized, when the search finds nothing and when a
\* collaborator throws.
C14_FailureGivesEmptyResponse ==
    (/\ rag.pc = "done"
     /\ \/ ~rag.embedded
        \/ ~rag.init_ret
        \/ rag.found = 0
        \/ rag.lookup_failed) =>
        rag.response = EmptyContextResponse

====
